---- MODULE Spec2Model ----
(***************************************************************************)
(* IntentOrchestrator (src/backend/agents/orchestrator.py) as a state      *)
(* machine.  Python objects are modelled with their aliasing: an intent    *)
(* record is one object on a heap, and the active set, the history log,    *)
(* a suspended call's local intent_record and a mapping returned by        *)
(* get_active_intents() all hold references to it.  VoiceAgent             *)
(* (voice_agent.py) and GestureAgent (gesture_agent.py) are modelled as    *)
(* the callers that turn a text or a gesture into a process_intent call.   *)
(* OrdersService and CatalogService (src/backend/services) and             *)
(* UIActionHandler (src/backend/ui_components/common.py) are modelled      *)
(* next to it, each with a specification of its own.                       *)
(***************************************************************************)
EXTENDS Integers, Sequences, FiniteSets, TLC

(* ---- bounds of the model ---------------------------------------------- *)
\* process_intent calls made in one behaviour (after those of the initial history)
MaxCalls == 2
\* get_intent_history is asked for limits 0..MaxLimit
MaxLimit == 2
\* a history that starts near its cap holds between HISTORY_CAP - PrefillSlack
\* and HISTORY_CAP records
PrefillSlack == 1

\* the gesture agent reads clock values up to MaxTicks clock steps
MaxTicks == 4

\* the services read clock values up to MaxServiceTime
MaxServiceTime == 1

\* handle_action calls made in one behaviour
MaxActions == 3

(* ---- program constants ------------------------------------------------- *)
\* `if len(self.intent_history) > 100`
HISTORY_CAP == 100
\* `self.intent_history = self.intent_history[-50:]`
HISTORY_KEEP == 50

(* ---- Python dict and list primitives ----------------------------------- *)
\* d[k] = v
Put(d, k, v) == [f \in DOMAIN d \cup {k} |-> IF f = k THEN v ELSE d[f]]

\* d.get(k, default)
Get(d, k, default) == IF k \in DOMAIN d THEN d[k] ELSE default

\* del d[k] (the caller has checked k in d)
Del(d, k) == [f \in DOMAIN d \ {k} |-> d[f]]

\* {}
EmptyDict == [f \in {} |-> ""]

\* None
PyNone == "<None>"

\* s[start:] for a list s, by Python's slice rules: a negative start counts
\* from the end and is clamped at 0; a start beyond the end gives []
SliceFrom(s, start) ==
    LET n == Len(s)
        lo == IF start < 0
              THEN (IF start + n < 0 THEN 0 ELSE start + n)
              ELSE (IF start > n THEN n ELSE start)
    IN  [i \in 1..(n - lo) |-> s[lo + i]]

\* min(a, b)
Min(a, b) == IF a <= b THEN a ELSE b

(* ---- intents and handlers ---------------------------------------------- *)
\* the registry built by the constructor: intent name -> bound method
DefaultHandlers ==
    [n \in {"catalog.refresh", "catalog.toggle_status", "catalog.view_details",
            "catalog.search", "orders.view", "orders.refresh", "orders.complete",
            "orders.refund", "orders.details", "ui.select", "ui.refresh",
            "ui.navigate", "system.help", "system.status"} |->
        CASE n = "catalog.refresh"       -> "_handle_catalog_refresh"
          [] n = "catalog.toggle_status" -> "_handle_catalog_toggle"
          [] n = "catalog.view_details"  -> "_handle_catalog_details"
          [] n = "catalog.search"        -> "_handle_catalog_search"
          [] n = "orders.view"           -> "_handle_orders_view"
          [] n = "orders.refresh"        -> "_handle_orders_refresh"
          [] n = "orders.complete"       -> "_handle_order_complete"
          [] n = "orders.refund"         -> "_handle_order_refund"
          [] n = "orders.details"        -> "_handle_order_details"
          [] n = "ui.select"             -> "_handle_ui_select"
          [] n = "ui.refresh"            -> "_handle_ui_refresh"
          [] n = "ui.navigate"           -> "_handle_ui_navigate"
          [] n = "system.help"           -> "_handle_system_help"
          [] n = "system.status"         -> "_handle_system_status"]

\* the orchestrator's own handlers: coroutines without an await of their
\* own, so `await handler(params)` runs them to completion without yielding
BuiltinHandlers == {DefaultHandlers[n] : n \in DOMAIN DefaultHandlers}

\* handlers a caller registers; each awaits a collaborator, so a call
\* suspends in it.  What each does when it resumes is CustomOutcome.
CustomHandlers == {"h_own_fields", "h_no_status", "h_raise"}

\* what a custom handler does: return an envelope or raise an error
CustomOutcome(h) ==
    CASE h = "h_own_fields" -> [kind |-> "return",
                                env |-> [status |-> "success", action |-> "echo",
                                         intent |-> "handler.intent",
                                         source |-> "handler.source"]]
      [] h = "h_no_status"  -> [kind |-> "return", env |-> [action |-> "echo"]]
      [] h = "h_raise"      -> [kind |-> "raise", msg |-> "boom"]

\* order_id[:8] on the order ids of the model
Prefix8(order_id) ==
    CASE order_id = "test_order_123" -> "test_ord"
      [] OTHER -> order_id

\* a test that takes only None for missing
Falsy_OnlyNone(v) == v = PyNone

\* `not v` for a value read with params.get(key)
Falsy(v) == v = PyNone \/ v = ""

\* a string built by an f-string or a literal: the sequence of its parts
Text1(a) == <<a>>

\* the orchestrator's own handlers (lines 119-301): the envelope each returns
\* for params; nActive, nHistory and nHandlers are the sizes _handle_system_status
\* reads when it runs
BuiltinEnvelope(h, params, nActive, nHistory, nHandlers) ==
    LET item_id    == Get(params, "item_id", PyNone)
        order_id   == Get(params, "order_id", PyNone)
        Ok(action, message, more) ==
            Put(Put(Put(Put(more, "status", "success"), "action", action),
                    "message", message), "ui_update", TRUE)
        Missing(message) == [status |-> "error", error |-> Text1(message)]
    IN  CASE h = "_handle_catalog_refresh" ->
               Ok("refresh_catalog", Text1("Refreshing catalog items..."), EmptyDict)
          [] h = "_handle_catalog_toggle" ->
               IF Falsy(item_id) THEN Missing("Missing item_id")
               ELSE Ok("toggle_item_status", <<"Toggling status for item ", item_id>>,
                       [item_id |-> item_id])
          [] h = "_handle_catalog_details" ->
               IF Falsy(item_id) THEN Missing("Missing item_id")
               ELSE Ok("show_item_details", <<"Showing details for item ", item_id>>,
                       [item_id |-> item_id])
          [] h = "_handle_catalog_search" ->
               Ok("search_catalog", <<"Searching catalog for: ", Get(params, "query", "")>>,
                  [query |-> Get(params, "query", "")])
          [] h = "_handle_orders_view" ->
               Ok("show_orders_dashboard", Text1("Loading recent orders..."), EmptyDict)
          [] h = "_handle_orders_refresh" ->
               Ok("refresh_orders", Text1("Refreshing orders..."), EmptyDict)
          [] h = "_handle_order_complete" ->
               IF Falsy(order_id) THEN Missing("Missing order_id")
               ELSE Ok("mark_order_complete",
                       <<"Marking order ", Prefix8(order_id), "... as complete">>,
                       [order_id |-> order_id])
          [] h = "_handle_order_refund" ->
               IF Falsy(order_id) THEN Missing("Missing order_id")
               ELSE Ok("process_order_refund",
                       <<"Processing refund for order ", Prefix8(order_id), "...">>,
                       [order_id |-> order_id,
                        reason |-> Get(params, "reason", "Customer request")])
          [] h = "_handle_order_details" ->
               IF Falsy(order_id) THEN Missing("Missing order_id")
               ELSE Ok("show_order_details",
                       <<"Showing details for order ", Prefix8(order_id), "...">>,
                       [order_id |-> order_id])
          [] h = "_handle_ui_select" ->
               Ok("ui_select",
                  <<"Selected ", Get(params, "element_type", "unknown"), ": ",
                    Get(params, "element_id", PyNone)>>,
                  [element_id |-> Get(params, "element_id", PyNone),
                   element_type |-> Get(params, "element_type", "unknown")])
          [] h = "_handle_ui_refresh" ->
               Ok("refresh_ui", <<"Refreshing ", Get(params, "target", "current_view"), "...">>,
                  [target |-> Get(params, "target", "current_view")])
          [] h = "_handle_ui_navigate" ->
               Ok("navigate", <<"Navigating to ", Get(params, "target", "dashboard"), "...">>,
                  [target |-> Get(params, "target", "dashboard")])
          [] h = "_handle_system_help" ->
               [status |-> "success", action |-> "show_help",
                message |-> Text1("Available commands:"),
                data |-> <<"refresh catalog - Update catalog items",
                           "show orders - Display recent orders",
                           "toggle item status - Activate/deactivate items",
                           "complete order - Mark order as complete",
                           "refund order - Process order refund">>,
                ui_update |-> FALSE]
          [] h = "_handle_system_status" ->
               [status |-> "success", action |-> "system_status",
                message |-> Text1("Qanat system is running"),
                data |-> [active_intents |-> nActive,
                          processed_intents |-> nHistory,
                          available_handlers |-> nHandlers],
                ui_update |-> FALSE]

(* ---- state -------------------------------------------------------------- *)
VARIABLES
    intent_handlers,  \* self.intent_handlers: intent name -> handler
    active_intents,   \* self.active_intents: intent id -> reference to a record
    intent_history,   \* self.intent_history: list of references to records
    heap,             \* the intent records; a reference is an index into heap
    pending,          \* process_intent calls suspended in `await handler(params)`:
                      \* reference of the call's intent_record -> its locals
    now,              \* the latest reading of datetime.utcnow()
    snapshot,         \* the mapping a caller holds from get_active_intents()
    history_view,     \* the list a caller holds from get_intent_history(limit)
    done,             \* log: per returned process_intent call, its arguments, the
                      \* handler it ran, what the handler did, the envelope returned
    appended,         \* log: every reference appended to intent_history, in order
    voice_result,     \* what the latest VoiceAgent.process_voice_command returned
    confidence_threshold,  \* GestureAgent.confidence_threshold, in hundredths
    last_gesture_time,     \* GestureAgent.last_gesture_time: gesture -> time (ms)
    selected_item_id,      \* GestureAgent.selected_item_id (no item is selected
                           \* in the behaviours of the model)
    gesture_result,   \* what the latest _process_frame or test_gesture returned
    demo_orders,      \* OrdersService.demo_orders["orders"]: the list of orders
    demo_catalog,     \* CatalogService.demo_catalog["items"]: the list of items
    service_call,     \* log: the latest call of a service method, its arguments
                      \* and what it returned or raised
    action_handlers,  \* UIActionHandler.action_handlers: action name -> handler
    loading_states,   \* UIActionHandler.loading_states: action name -> time set
    ui_pending,       \* handle_action calls suspended in `await handler(...)`:
                      \* call number -> its locals
    ui_done           \* log: per returned handle_action call, its action and the
                      \* envelope returned

\* the state of the voice and gesture agents that feed the orchestrator
agentVars == <<voice_result, confidence_threshold, last_gesture_time,
               selected_item_id, gesture_result>>

\* the state of OrdersService and CatalogService
serviceVars == <<demo_orders, demo_catalog, service_call>>

\* the state of UIActionHandler
uiVars == <<action_handlers, loading_states, ui_pending, ui_done>>

vars == <<intent_handlers, active_intents, intent_history, heap, pending, now,
          snapshot, history_view, done, appended, voice_result,
          confidence_threshold, last_gesture_time, selected_item_id,
          gesture_result, demo_orders, demo_catalog, service_call,
          action_handlers, loading_states, ui_pending, ui_done>>

(* ---- inputs of the model ------------------------------------------------ *)
\* intent names process_intent is called with and handlers are (un)registered
\* for: a default one and one the constructor does not register
CallIntents == {"catalog.refresh", "x"}

CallParams == {EmptyDict}

CallSources == {"test"}

\* the (intent, handler) pairs register_handler is called with: every custom
\* handler for the new intent, and one replacing a default handler
RegisterArgs ==
    {<<"x", h>> : h \in CustomHandlers} \cup {<<"catalog.refresh", "h_own_fields">>}

\* an intent record as process_intent creates it (lines 70-76)
NewRecord(intent, params, source, timestamp) ==
    [intent |-> intent, params |-> params, source |-> source,
     timestamp |-> timestamp, status |-> "processing"]

\* f"{intent}_{datetime.utcnow().timestamp()}" (line 78)
IntentId(intent, timestamp) == <<intent, timestamp>>

\* the record an earlier process_intent("catalog.refresh", {}, "test") left in
\* the history
PrefillResult ==
    Put(Put(BuiltinEnvelope("_handle_catalog_refresh", EmptyDict, 1, 0, 14),
            "intent", "catalog.refresh"), "source", "test")

PrefillRecord ==
    Put(Put(NewRecord("catalog.refresh", EmptyDict, "test", 0),
            "status", "success"), "result", PrefillResult)

\* no call of the agent has returned yet
NoResult == [status |-> "<no call yet>"]

\* confidence_threshold when the configuration gives none: 0.7
DEFAULT_THRESHOLD == 70

\* VoiceAgent and GestureAgent as constructed, the gesture agent with the
\* given configured threshold
AgentsInit(threshold) ==
    /\ voice_result = NoResult
    /\ confidence_threshold = threshold
    /\ last_gesture_time = EmptyDict
    /\ selected_item_id = PyNone
    /\ gesture_result = NoResult

\* the orchestrator after n sequential process_intent("catalog.refresh", {},
\* "test") calls; n = 0 is the orchestrator as constructed (lines 16-24)
OrchestratorAfter(n) ==
    /\ intent_handlers = DefaultHandlers
    /\ active_intents = EmptyDict
    /\ heap = [i \in 1..n |-> PrefillRecord]
    /\ intent_history = [i \in 1..n |-> i]
    /\ appended = [i \in 1..n |-> i]
    /\ pending = EmptyDict
    /\ now = 0
    /\ snapshot = [taken |-> FALSE, items |-> EmptyDict]
    /\ history_view = [taken |-> FALSE, limit |-> 0, records |-> <<>>]
    /\ done = EmptyDict

\* no call of a service method has been made yet
NoCall == [op |-> "<no call yet>"]

\* the orders of the constructor (orders_service.py lines 27-102): state, the
\* amount of total_money, and created_at and updated_at in half hours from
\* the time of construction
InitialOrders ==
    << [id |-> "order_001", state |-> "OPEN", created_at |-> -4,
        updated_at |-> -4, amount |-> 550],
       [id |-> "order_002", state |-> "COMPLETED", created_at |-> -8,
        updated_at |-> -6, amount |-> 750],
       [id |-> "order_003", state |-> "OPEN", created_at |-> -1,
        updated_at |-> -1, amount |-> 500] >>

\* the items of the constructor (catalog_service.py lines 26-61)
InitialCatalog ==
    << [id |-> "catalog_item_1", present_at_all_locations |-> TRUE],
       [id |-> "catalog_item_2", present_at_all_locations |-> TRUE],
       [id |-> "catalog_item_3", present_at_all_locations |-> FALSE],
       [id |-> "catalog_item_4", present_at_all_locations |-> TRUE] >>

\* OrdersService and CatalogService as constructed
ServicesInit ==
    /\ demo_orders = InitialOrders
    /\ demo_catalog = InitialCatalog
    /\ service_call = NoCall

\* the handlers _register_default_handlers binds (common.py lines 26-41)
DefaultActionHandlers ==
    [a \in {"refresh_catalog", "toggle_item_status", "view_item_details",
            "refresh_orders", "mark_order_complete", "process_refund",
            "view_order_details", "close_modal", "search_catalog",
            "filter_orders"} |->
        CASE a = "refresh_catalog"     -> "_handle_refresh_catalog"
          [] a = "toggle_item_status"  -> "_handle_toggle_item_status"
          [] a = "view_item_details"   -> "_handle_view_item_details"
          [] a = "refresh_orders"      -> "_handle_refresh_orders"
          [] a = "mark_order_complete" -> "_handle_mark_order_complete"
          [] a = "process_refund"      -> "_handle_process_refund"
          [] a = "view_order_details"  -> "_handle_view_order_details"
          [] a = "close_modal"         -> "_handle_close_modal"
          [] a = "search_catalog"      -> "_handle_search_catalog"
          [] a = "filter_orders"       -> "_handle_filter_orders"]

\* UIActionHandler as constructed (common.py lines 15-24)
UiInit ==
    /\ action_handlers = DefaultActionHandlers
    /\ loading_states = EmptyDict
    /\ ui_pending = EmptyDict
    /\ ui_done = EmptyDict

\* the services and the UI action handler as constructed
ClientsInit == ServicesInit /\ UiInit

\* the orchestrator with agents configured by default
InitAfter(n) == AgentsInit(DEFAULT_THRESHOLD) /\ OrchestratorAfter(n) /\ ClientsInit

Init == InitAfter(0)

InitNearCap ==
    \E n \in 0..HISTORY_CAP : n >= HISTORY_CAP - PrefillSlack /\ InitAfter(n)

(* ---- process_intent ----------------------------------------------------- *)
\* the no-handler branch without the intent name in its message
NoHandlerEnvelope_NoName(intent) ==
    [status |-> "error", error |-> <<"No handler for intent: ", "">>,
     intent |-> intent]

\* the envelope of the no-handler branch (lines 85-89)
NoHandlerEnvelope(intent) ==
    [status |-> "error", error |-> <<"No handler for intent: ", intent>>,
     intent |-> intent]

\* the except branch without the intent field
ErrorEnvelope_NoIntent(message, intent) ==
    [status |-> "error", error |-> message]

\* the envelope of the except branch (lines 112-116); message is str(e)
ErrorEnvelope(message, intent) ==
    [status |-> "error", error |-> message, intent |-> intent]

\* str(e) of the KeyError that `del self.active_intents[intent_id]` raises
KeyErrorMessage(intent_id) == <<"'", intent_id, "'">>

\* lines 92-93: the handler's envelope with intent and source set
Augment(env, intent, source) == Put(Put(env, "intent", intent), "source", source)

\* lines 104-105: the history after the size check
Trim(history) ==
    IF Len(history) > HISTORY_CAP THEN SliceFrom(history, 0 - HISTORY_KEEP) ELSE history

\* datetime.utcnow() (lines 74 and 78, read in one synchronous stretch and
\* taken as one reading): the value the previous call read, or a later one
ClockReadings == {now, now + 1}

\* lines 69-79: the record is created and entered in the active set under
\* the id built from the reading t
AcceptHeap(intent, params, source, t) ==
    Append(heap, NewRecord(intent, params, source, t))

AcceptActive(intent, t) ==
    Put(active_intents, IntentId(intent, t), Len(heap) + 1)

\* a completion that puts the record at the head of the history
MoveToHistory_Prepend(act, hist, hp, ref, intent, intent_id, result) ==
    LET hp1   == [hp EXCEPT ![ref] =
                     Put(Put(@, "status", Get(result, "status", "completed")),
                         "result", result)]
        hist1 == <<ref>> \o hist
    IN  IF intent_id \in DOMAIN act
        THEN [active |-> Del(act, intent_id), history |-> Trim(hist1), heap |-> hp1,
              ret |-> result]
        ELSE [active |-> act, history |-> hist1, heap |-> hp1,
              ret |-> ErrorEnvelope(KeyErrorMessage(intent_id), intent)]

\* lines 95-108 for the call whose record is ref, from the state (act, hist,
\* hp): the record is completed and appended, its id deleted from the active
\* set, the history trimmed and result returned.  A KeyError of the delete
\* leaves through the except branch, after the append and before the trim.
MoveToHistory(act, hist, hp, ref, intent, intent_id, result) ==
    LET hp1   == [hp EXCEPT ![ref] =
                     Put(Put(@, "status", Get(result, "status", "completed")),
                         "result", result)]
        hist1 == Append(hist, ref)
    IN  IF intent_id \in DOMAIN act
        THEN [active |-> Del(act, intent_id), history |-> Trim(hist1), heap |-> hp1,
              ret |-> result]
        ELSE [active |-> act, history |-> hist1, heap |-> hp1,
              ret |-> ErrorEnvelope(KeyErrorMessage(intent_id), intent)]

\* the log entry of a returned call
DoneEntry(intent, params, source, handler, outcome, ret) ==
    [intent |-> intent, params |-> params, source |-> source, handler |-> handler,
     outcome |-> outcome, ret |-> ret]

CallsStarted == Cardinality(DOMAIN done) + Cardinality(DOMAIN pending)

\* line 82: self.intent_handlers.get(intent)
Lookup(intent) == Get(intent_handlers, intent, PyNone)

\* process_intent(intent, params, source) run from entry to return in one
\* step with the clock reading t: no handler is registered for intent, or the
\* handler is one of the orchestrator's own
SyncCall(intent, params, source, t) ==
    LET handler == Lookup(intent)
        ref     == Len(heap) + 1
        act     == AcceptActive(intent, t)
        hp      == AcceptHeap(intent, params, source, t)
        env     == BuiltinEnvelope(handler, params, Cardinality(DOMAIN act),
                                   Len(intent_history),
                                   Cardinality(DOMAIN intent_handlers))
        result  == IF handler = PyNone THEN NoHandlerEnvelope(intent)
                   ELSE Augment(env, intent, source)
        outcome == IF handler = PyNone THEN [kind |-> "none"]
                   ELSE [kind |-> "return", env |-> env]
        m       == MoveToHistory(act, intent_history, hp, ref, intent,
                                 IntentId(intent, t), result)
    IN  /\ now' = t
        /\ active_intents' = m.active
        /\ intent_history' = m.history
        /\ heap' = m.heap
        /\ appended' = Append(appended, ref)
        /\ done' = Put(done, ref, DoneEntry(intent, params, source, handler,
                                            outcome, m.ret))
        /\ UNCHANGED <<intent_handlers, pending, snapshot, history_view>>

\* a call can be made: the model's budget of calls is not used up, and the
\* call will not yield
CanSyncCall(intent) ==
    /\ CallsStarted < MaxCalls
    /\ Lookup(intent) \in BuiltinHandlers \cup {PyNone}

\* process_intent(intent, params, source) that does not yield, made by a
\* caller other than the agents
process_intent_sync(intent, params, source) ==
    /\ CanSyncCall(intent)
    /\ \E t \in ClockReadings : SyncCall(intent, params, source, t)
    /\ UNCHANGED <<agentVars, serviceVars, uiVars>>

\* process_intent(intent, params, source) up to `await handler(params)` with a
\* registered handler that yields (lines 66-91)
process_intent_begin(intent, params, source) ==
    /\ CallsStarted < MaxCalls
    /\ Lookup(intent) \in CustomHandlers
    /\ \E t \in ClockReadings :
        /\ now' = t
        /\ active_intents' = AcceptActive(intent, t)
        /\ heap' = AcceptHeap(intent, params, source, t)
        /\ pending' = Put(pending, Len(heap) + 1,
                          [intent |-> intent, params |-> params, source |-> source,
                           intent_id |-> IntentId(intent, t),
                           handler |-> Lookup(intent)])
    /\ UNCHANGED <<intent_handlers, intent_history, snapshot, history_view, done,
                   appended>>
    /\ UNCHANGED <<agentVars, serviceVars, uiVars>>

\* the handler of the suspended call ref returns or raises, and process_intent
\* runs to its return (lines 91-116)
process_intent_resume(ref) ==
    /\ ref \in DOMAIN pending
    /\ LET c       == pending[ref]
           outcome == CustomOutcome(c.handler)
       IN  IF outcome.kind = "raise"
           THEN /\ UNCHANGED <<active_intents, intent_history, heap, appended>>
                /\ done' = Put(done, ref,
                               DoneEntry(c.intent, c.params, c.source, c.handler,
                                         outcome,
                                         ErrorEnvelope(Text1(outcome.msg), c.intent)))
           ELSE LET m == MoveToHistory(active_intents, intent_history, heap, ref,
                                       c.intent, c.intent_id,
                                       Augment(outcome.env, c.intent, c.source))
                IN  /\ active_intents' = m.active
                    /\ intent_history' = m.history
                    /\ heap' = m.heap
                    /\ appended' = Append(appended, ref)
                    /\ done' = Put(done, ref,
                                   DoneEntry(c.intent, c.params, c.source,
                                             c.handler, outcome, m.ret))
    /\ pending' = Del(pending, ref)
    /\ UNCHANGED <<intent_handlers, now, snapshot, history_view>>
    /\ UNCHANGED <<agentVars, serviceVars, uiVars>>

(* ---- the registry -------------------------------------------------------- *)
\* a registration that discards the other bindings
register_handler_DropOthers(intent, handler) ==
    /\ intent_handlers' = [n \in {intent} |-> handler]
    /\ UNCHANGED <<active_intents, intent_history, heap, pending, now, snapshot,
                   history_view, done, appended>>
    /\ UNCHANGED <<agentVars, serviceVars, uiVars>>

\* self.intent_handlers[intent] = handler (lines 311-314)
register_handler(intent, handler) ==
    /\ intent_handlers' = Put(intent_handlers, intent, handler)
    /\ UNCHANGED <<active_intents, intent_history, heap, pending, now, snapshot,
                   history_view, done, appended>>
    /\ UNCHANGED <<agentVars, serviceVars, uiVars>>

\* an unregistration that empties the registry
unregister_handler_ClearAll(intent) ==
    /\ intent_handlers' = EmptyDict
    /\ UNCHANGED <<active_intents, intent_history, heap, pending, now, snapshot,
                   history_view, done, appended>>
    /\ UNCHANGED <<agentVars, serviceVars, uiVars>>

\* `if intent in self.intent_handlers: del self.intent_handlers[intent]`
\* (lines 316-320)
unregister_handler(intent) ==
    /\ intent_handlers' = IF intent \in DOMAIN intent_handlers
                          THEN Del(intent_handlers, intent)
                          ELSE intent_handlers
    /\ UNCHANGED <<active_intents, intent_history, heap, pending, now, snapshot,
                   history_view, done, appended>>
    /\ UNCHANGED <<agentVars, serviceVars, uiVars>>

(* ---- the queries --------------------------------------------------------- *)
\* self.intent_history[-limit:]
HistorySlice(limit) == SliceFrom(intent_history, 0 - limit)

get_intent_history(limit) ==
    /\ history_view' = [taken |-> TRUE, limit |-> limit,
                        records |-> HistorySlice(limit)]
    /\ UNCHANGED <<intent_handlers, active_intents, intent_history, heap, pending,
                   now, snapshot, done, appended>>
    /\ UNCHANGED <<agentVars, serviceVars, uiVars>>

\* self.active_intents.copy(): a new dict holding the same record objects
get_active_intents ==
    /\ snapshot' = [taken |-> TRUE, items |-> active_intents]
    /\ UNCHANGED <<intent_handlers, active_intents, intent_history, heap, pending,
                   now, history_view, done, appended>>
    /\ UNCHANGED <<agentVars, serviceVars, uiVars>>

(* ---- a caller working on the mapping get_active_intents() returned ------ *)
\* del mapping[key]
caller_removes_key(key) ==
    /\ snapshot.taken
    /\ key \in DOMAIN snapshot.items
    /\ snapshot' = [snapshot EXCEPT !.items = Del(@, key)]
    /\ UNCHANGED <<intent_handlers, active_intents, intent_history, heap, pending,
                   now, history_view, done, appended>>
    /\ UNCHANGED <<agentVars, serviceVars, uiVars>>

\* mapping["caller.key"] = mapping[key]
caller_adds_key(key) ==
    /\ snapshot.taken
    /\ key \in DOMAIN snapshot.items
    /\ IntentId("caller.key", 0) \notin DOMAIN snapshot.items
    /\ snapshot' = [snapshot EXCEPT !.items =
                       Put(@, IntentId("caller.key", 0), snapshot.items[key])]
    /\ UNCHANGED <<intent_handlers, active_intents, intent_history, heap, pending,
                   now, history_view, done, appended>>
    /\ UNCHANGED <<agentVars, serviceVars, uiVars>>

\* mapping[key]["source"] = "caller": the record is the orchestrator's object
caller_alters_record(key) ==
    /\ snapshot.taken
    /\ key \in DOMAIN snapshot.items
    /\ heap[snapshot.items[key]].source # "caller"
    /\ heap' = [heap EXCEPT ![snapshot.items[key]] = Put(@, "source", "caller")]
    /\ UNCHANGED <<intent_handlers, active_intents, intent_history, pending, now,
                   snapshot, history_view, done, appended>>
    /\ UNCHANGED <<agentVars, serviceVars, uiVars>>

(* ---- specifications ------------------------------------------------------ *)
\* the operations that change the orchestrator
Next ==
    \/ \E intent \in CallIntents, params \in CallParams, source \in CallSources :
          \/ process_intent_sync(intent, params, source)
          \/ process_intent_begin(intent, params, source)
    \/ \E ref \in DOMAIN pending : process_intent_resume(ref)
    \/ \E a \in RegisterArgs : register_handler(a[1], a[2])
    \/ \E intent \in CallIntents : unregister_handler(intent)

\* a new orchestrator
Spec == Init /\ [][Next]_vars

\* an orchestrator whose history is at or just below its cap
SpecNearCap == InitNearCap /\ [][Next]_vars

\* get_intent_history between the orchestrator's operations
NextHistoryQuery ==
    \/ Next
    \/ \E limit \in 0..MaxLimit : get_intent_history(limit)

SpecHistoryQuery == Init /\ [][NextHistoryQuery]_vars

\* get_active_intents between the orchestrator's operations, and what a caller
\* does with the mapping it returned
NextSnapshot ==
    \/ Next
    \/ get_active_intents
    \/ \E key \in DOMAIN snapshot.items :
          \/ caller_removes_key(key)
          \/ caller_adds_key(key)
          \/ caller_alters_record(key)

SpecSnapshot == Init /\ [][NextSnapshot]_vars

(* ---- system.status between the orchestrator's operations ----------------- *)
NextStatus ==
    \/ Next
    \/ process_intent_sync("system.status", EmptyDict, "test")

\* a new orchestrator that is also asked for its status
SpecStatus == Init /\ [][NextStatus]_vars

(* ---- the default handlers that require an id ------------------------------ *)
\* the intents whose default handler validates an id field (lines 128-154,
\* 186-229)
IdIntents == {"catalog.toggle_status", "catalog.view_details", "orders.complete",
              "orders.refund", "orders.details"}

\* params a caller passes to them: no field, an id, an empty id, None as id
IdParams ==
    {EmptyDict, [item_id |-> "item_1"], [item_id |-> ""], [order_id |-> "abc123"],
     [order_id |-> "test_order_123"], [order_id |-> ""], [order_id |-> PyNone]}

NextRequiredIds ==
    \E intent \in IdIntents, params \in IdParams :
        process_intent_sync(intent, params, "ui")

\* a new orchestrator called for the id-validating intents
SpecRequiredIds == Init /\ [][NextRequiredIds]_vars

(* ---- VoiceAgent (src/backend/agents/voice_agent.py) ---------------------- *)
\* A text is the sequence of its characters.

\* str.lower() on the letters of the texts of the model
LowerChar(c) ==
    CASE c = "A" -> "a" [] c = "B" -> "b" [] c = "C" -> "c" [] c = "D" -> "d"
      [] c = "E" -> "e" [] c = "F" -> "f" [] c = "G" -> "g" [] c = "H" -> "h"
      [] c = "I" -> "i" [] c = "J" -> "j" [] c = "K" -> "k" [] c = "L" -> "l"
      [] c = "M" -> "m" [] c = "N" -> "n" [] c = "O" -> "o" [] c = "P" -> "p"
      [] c = "Q" -> "q" [] c = "R" -> "r" [] c = "S" -> "s" [] c = "T" -> "t"
      [] c = "U" -> "u" [] c = "V" -> "v" [] c = "W" -> "w" [] c = "X" -> "x"
      [] c = "Y" -> "y" [] c = "Z" -> "z" [] OTHER -> c

Lower(text) == [i \in DOMAIN text |-> LowerChar(text[i])]

\* str.strip(): without the leading and trailing whitespace
Whitespace == {" ", "\t", "\n", "\r"}

Strip(text) ==
    LET keep == {i \in DOMAIN text : text[i] \notin Whitespace}
    IN  IF keep = {} THEN <<>>
        ELSE SubSeq(text, CHOOSE i \in keep : \A j \in keep : i <= j,
                          CHOOSE i \in keep : \A j \in keep : i >= j)

\* `trigger in text`: trigger occurs in text as a run of characters
Contains(trigger, text) ==
    \E i \in 0..(Len(text) - Len(trigger)) :
        \A j \in 1..Len(trigger) : text[i + j] = trigger[j]

\* self.command_mappings (lines 39-80), in the order the dict holds them
command_mappings ==
    <<
      [trigger  |-> <<"r", "e", "f", "r", "e", "s", "h", " ", "c", "a", "t",
                    "a", "l", "o", "g">>,
       intent   |-> "catalog.refresh",
       params   |-> EmptyDict,
       response |-> "Refreshing your catalog items..."],
      [trigger  |-> <<"u", "p", "d", "a", "t", "e", " ", "c", "a", "t", "a",
                    "l", "o", "g">>,
       intent   |-> "catalog.refresh",
       params   |-> EmptyDict,
       response |-> "Updating catalog data..."],
      [trigger  |-> <<"r", "e", "l", "o", "a", "d", " ", "i", "t", "e", "m",
                    "s">>,
       intent   |-> "catalog.refresh",
       params   |-> EmptyDict,
       response |-> "Reloading catalog items..."],
      [trigger  |-> <<"s", "h", "o", "w", " ", "o", "r", "d", "e", "r", "s">>,
       intent   |-> "orders.view",
       params   |-> EmptyDict,
       response |-> "Loading your recent orders..."],
      [trigger  |-> <<"v", "i", "e", "w", " ", "o", "r", "d", "e", "r", "s">>,
       intent   |-> "orders.view",
       params   |-> EmptyDict,
       response |-> "Displaying recent orders..."],
      [trigger  |-> <<"r", "e", "c", "e", "n", "t", " ", "o", "r", "d", "e",
                    "r", "s">>,
       intent   |-> "orders.view",
       params   |-> EmptyDict,
       response |-> "Showing recent orders..."],
      [trigger  |-> <<"h", "e", "l", "p">>,
       intent   |-> "system.help",
       params   |-> EmptyDict,
       response |-> "Here are the available voice commands..."],
      [trigger  |-> <<"w", "h", "a", "t", " ", "c", "a", "n", " ", "y", "o",
                    "u", " ", "d", "o">>,
       intent   |-> "system.help",
       params   |-> EmptyDict,
       response |-> "I can help you manage your Square catalog and orders..."]
    >>

\* the text as it is matched, without lowering its case
TextLower_AsIs(text) == Strip(text)

\* text.lower().strip() (line 201)
TextLower(text) == Strip(Lower(text))

\* lines 205-209: the entries of the table whose trigger is in text_lower; the
\* loop takes the first of them
Matching(text_lower) ==
    {i \in DOMAIN command_mappings : Contains(command_mappings[i].trigger, text_lower)}

\* the texts process_voice_command is called with
Utterances ==
    {
     \* "refresh catalog": a trigger as it is in the table
     <<"r", "e", "f", "r", "e", "s", "h", " ", "c", "a", "t", "a", "l",
       "o", "g">>,
     \* "Show Orders": a trigger in another case
     <<"S", "h", "o", "w", " ", "O", "r", "d", "e", "r", "s">>,
     \* "  HELP ": a trigger in capitals between spaces
     <<" ", " ", "H", "E", "L", "P", " ">>,
     \* "unknown command": no trigger
     <<"u", "n", "k", "n", "o", "w", "n", " ", "c", "o", "m", "m", "a",
       "n", "d">>,
     \* "": the empty text
     <<>>,
     \* "helpful": a trigger inside a word
     <<"h", "e", "l", "p", "f", "u", "l">>,
     \* "help update catalog": two triggers; the second is the earlier in the table
     <<"h", "e", "l", "p", " ", "u", "p", "d", "a", "t", "e", " ", "c",
       "a", "t", "a", "l", "o", "g">>,
     \* "refresh  catalog": the words of a trigger with two spaces between them
     <<"r", "e", "f", "r", "e", "s", "h", " ", " ", "c", "a", "t", "a",
       "l", "o", "g">>
    }

\* process_voice_command(text) of an agent built with the orchestrator (lines
\* 198-249); _speak_response changes nothing of the agent or the orchestrator
process_voice_command(text) ==
    LET hits == Matching(TextLower(text))
    IN  IF hits = {}
        THEN /\ voice_result' = [status |-> "no_match", text |-> text,
                                 message |-> Text1("Voice command not recognized")]
             /\ UNCHANGED <<intent_handlers, active_intents, intent_history, heap,
                            pending, now, snapshot, history_view, done, appended,
                            confidence_threshold, last_gesture_time,
                            selected_item_id, gesture_result,
                            serviceVars, uiVars>>
        ELSE LET command_info == command_mappings[CHOOSE i \in hits :
                                                     \A j \in hits : i <= j]
             IN  /\ CanSyncCall(command_info.intent)
                 /\ \E t \in ClockReadings :
                        SyncCall(command_info.intent, command_info.params, "voice", t)
                 /\ voice_result' =
                        [status |-> "success", text |-> text,
                         intent |-> command_info.intent,
                         params |-> command_info.params,
                         response |-> command_info.response,
                         orchestrator_result |-> done'[Len(heap) + 1].ret]
                 /\ UNCHANGED <<confidence_threshold, last_gesture_time,
                                selected_item_id, gesture_result,
                                serviceVars, uiVars>>

NextVoice == \E text \in Utterances : process_voice_command(text)

\* a voice agent feeding a new orchestrator
SpecVoice == Init /\ [][NextVoice]_vars

(* ---- GestureAgent (src/backend/agents/gesture_agent.py) ------------------ *)
\* Times are in milliseconds, confidences in hundredths.

\* self.gesture_mappings (lines 46-67)
gesture_mappings ==
    [g \in {"thumb_up", "point_index", "open_palm", "peace_sign"} |->
        CASE g = "thumb_up" ->
               [intent |-> "catalog.toggle_status",
                description |-> "Toggle item active/inactive status",
                cooldown_ms |-> 1000]
          [] g = "point_index" ->
               [intent |-> "ui.select",
                description |-> "Select table row or UI element",
                cooldown_ms |-> 500]
          [] g = "open_palm" ->
               [intent |-> "ui.refresh",
                description |-> "Refresh current dashboard",
                cooldown_ms |-> 2000]
          [] g = "peace_sign" ->
               [intent |-> "ui.navigate",
                description |-> "Switch between catalog and orders view",
                cooldown_ms |-> 1500]]

\* what _classify_gesture returns (lines 195, 204, 212, 222, 224)
Classified ==
    {<<"thumb_up", 85>>, <<"point_index", 80>>, <<"open_palm", 75>>,
     <<"peace_sign", 80>>, <<PyNone, 0>>}

\* a camera frame, by what MediaPipe and _classify_gesture make of it: no
\* hand, or the gesture and confidence of the first hand
Frames ==
    {[hands |-> FALSE, gesture |-> PyNone, confidence |-> 0]} \cup
    {[hands |-> TRUE, gesture |-> c[1], confidence |-> c[2]] : c \in Classified}

\* thresholds the agent is configured with: the default, and two that reject
\* gestures the classifier reports
Thresholds == {DEFAULT_THRESHOLD, 80, 90}

\* the confidence test_gesture passes for its simulated detection (line 301)
TEST_CONFIDENCE == 90

\* gestures test_gesture is called with
TestGestures == DOMAIN gesture_mappings \cup {"unknown_gesture"}

\* the clock of the gesture model advances in steps of the shortest cooldown
ClockStep == gesture_mappings["point_index"].cooldown_ms

\* datetime.utcnow() (line 234): the latest reading or a later one
GestureReadings == {t \in {k * ClockStep : k \in 0..MaxTicks} : t >= now}

\* a cooldown that any gesture's last occurrence starts
InCooldown_AnyGesture(gesture, t) ==
    \E g \in DOMAIN last_gesture_time :
        t - last_gesture_time[g] < gesture_mappings[gesture].cooldown_ms

\* lines 240-246: the gesture was last forwarded less than its cooldown ago
InCooldown(gesture, t) ==
    /\ gesture \in DOMAIN last_gesture_time
    /\ t - last_gesture_time[gesture] < gesture_mappings[gesture].cooldown_ms

\* lines 254-262: the parameters of the intent.  The two elif branches compare
\* the gesture with intent names and are taken for no gesture of the table.
GestureParams(gesture) ==
    IF gesture = "thumb_up" /\ ~Falsy(selected_item_id)
    THEN [item_id |-> selected_item_id]
    ELSE EmptyDict

\* _handle_gesture(gesture, confidence) reading the clock as t (lines 230-288);
\* rejected is what the caller makes of a None result
_handle_gesture(gesture, confidence, t, rejected) ==
    IF gesture \notin DOMAIN gesture_mappings \/ InCooldown(gesture, t)
    THEN /\ now' = t
         /\ gesture_result' = rejected
         /\ UNCHANGED <<intent_handlers, active_intents, intent_history, heap,
                        pending, snapshot, history_view, done, appended,
                        voice_result, confidence_threshold, last_gesture_time,
                        selected_item_id,
                        serviceVars, uiVars>>
    ELSE LET mapping == gesture_mappings[gesture]
             params  == GestureParams(gesture)
         IN  /\ CanSyncCall(mapping.intent)
             /\ SyncCall(mapping.intent, params, "gesture", t)
             /\ last_gesture_time' = Put(last_gesture_time, gesture, t)
             /\ gesture_result' =
                    [status |-> "success", gesture |-> gesture,
                     confidence |-> confidence, intent |-> mapping.intent,
                     params |-> params, description |-> mapping.description,
                     timestamp |-> t,
                     orchestrator_result |-> done'[Len(heap) + 1].ret]
             /\ UNCHANGED <<voice_result, confidence_threshold, selected_item_id,
                            serviceVars, uiVars>>

\* the agent returned None
NoneResult == [status |-> PyNone]

\* _process_frame(frame) (lines 143-168)
_process_frame(frame) ==
    IF frame.hands /\ frame.gesture # PyNone
                   /\ frame.confidence > confidence_threshold
    THEN \E t \in GestureReadings :
            _handle_gesture(frame.gesture, frame.confidence, t, NoneResult)
    ELSE /\ gesture_result' = NoneResult
         /\ UNCHANGED <<intent_handlers, active_intents, intent_history, heap,
                        pending, now, snapshot, history_view, done, appended,
                        voice_result, confidence_threshold, last_gesture_time,
                        selected_item_id,
                        serviceVars, uiVars>>

\* test_gesture(gesture) (lines 290-317)
test_gesture(gesture) ==
    IF gesture \notin DOMAIN gesture_mappings
    THEN /\ gesture_result' = [status |-> "error",
                               error |-> <<"Unknown gesture: ", gesture>>]
         /\ UNCHANGED <<intent_handlers, active_intents, intent_history, heap,
                        pending, now, snapshot, history_view, done, appended,
                        voice_result, confidence_threshold, last_gesture_time,
                        selected_item_id,
                        serviceVars, uiVars>>
    ELSE \E t \in GestureReadings :
            _handle_gesture(gesture, TEST_CONFIDENCE, t,
                           [status |-> "cooldown", gesture |-> gesture,
                            message |-> Text1("Gesture in cooldown period")])

InitGesture ==
    \E threshold \in Thresholds :
        AgentsInit(threshold) /\ OrchestratorAfter(0) /\ ClientsInit

NextGesture ==
    \/ \E frame \in Frames : _process_frame(frame)
    \/ \E gesture \in TestGestures : test_gesture(gesture)

\* a gesture agent feeding a new orchestrator
SpecGesture == InitGesture /\ [][NextGesture]_vars

(* ---- OrdersService (src/backend/services/orders_service.py) ------------- *)
\* The methods have no await of their own: each runs from entry to return or
\* raise in one step.  Times are in half hours from the time of construction.

\* the state of the orchestrator other than the clock
orchestratorVars == <<intent_handlers, active_intents, intent_history, heap,
                      pending, snapshot, history_view, done, appended>>

\* datetime.utcnow() read by a service method whose result or update holds the
\* time: the latest reading or a later one
ServiceReadings == {t \in ClockReadings : t <= MaxServiceTime}

\* the log entry of a call that returned value
Returns(op, args, value) == [op |-> op, args |-> args, raised |-> FALSE, value |-> value]

\* the log entry of a call that raised ValueError(message)
Raises(op, args, message) == [op |-> op, args |-> args, raised |-> TRUE, error |-> message]

\* f"${amount / 100:.2f}" for an amount in cents: the text by its parts, the
\* cents as two digits
Dollars(amount) == <<"$", amount \div 100, ".", (amount % 100) \div 10, amount % 10>>

\* the loop of lines 166-169, 198-201 and 235-238: the index of the first order
\* with the id, 0 if there is none (order stays None)
FindOrder(order_id) ==
    LET hits == {i \in DOMAIN demo_orders : demo_orders[i].id = order_id}
    IN  IF hits = {} THEN 0 ELSE CHOOSE i \in hits : \A j \in hits : i <= j

\* a state test that lets every order be completed
CanComplete_Always(state) == TRUE

\* line 206: mark_complete goes on if the order is OPEN
CanComplete(state) == state = "OPEN"

\* a state test that lets every order be refunded
CanRefund_Always(state) == TRUE

\* line 243: process_refund goes on if the order is OPEN or COMPLETED
CanRefund(state) == state \in {"OPEN", "COMPLETED"}

\* the order ids of the calls: the orders of the constructor and an unknown one
OrderIds == {"order_001", "order_002", "order_003", "order_999"}

\* the limits get_recent_orders and get_items are called with: fewer than
\* there are records, and the default of get_recent_orders
Limits == {2, 20}

\* uuid.uuid4().hex[:8] (line 247)
RefundUuids == {"3f2a9c1e", "00c0ffee"}

\* a call that raised: nothing but the log changes
ServiceRaises(op, args, message) ==
    /\ service_call' = Raises(op, args, message)
    /\ UNCHANGED <<demo_orders, demo_catalog, now>>

\* a call that returned value without writing or reading the clock
ServiceReads(op, args, value) ==
    /\ service_call' = Returns(op, args, value)
    /\ UNCHANGED <<demo_orders, demo_catalog, now>>

\* orders[:limit] (line 145) for limit >= 0
get_recent_orders(limit) ==
    /\ ServiceReads("get_recent_orders", <<limit>>,
                    [orders |-> SubSeq(demo_orders, 1, Min(limit, Len(demo_orders))),
                     cursor |-> PyNone])
    /\ UNCHANGED <<orchestratorVars, agentVars, uiVars>>

\* get_order_details(order_id) (lines 159-189): a copy of the order with
\* payment_status added (items_summary and customer_info are made of fields
\* that no method changes)
get_order_details(order_id) ==
    LET i == FindOrder(order_id)
    IN  /\ IF i = 0
           THEN ServiceRaises("get_order_details", <<order_id>>,
                              <<"Order not found: ", order_id>>)
           ELSE ServiceReads("get_order_details", <<order_id>>,
                             [id |-> demo_orders[i].id,
                              state |-> demo_orders[i].state,
                              created_at |-> demo_orders[i].created_at,
                              updated_at |-> demo_orders[i].updated_at,
                              amount |-> demo_orders[i].amount,
                              payment_status |->
                                  IF demo_orders[i].state = "COMPLETED"
                                  THEN "COMPLETED" ELSE "PENDING"])
        /\ UNCHANGED <<orchestratorVars, agentVars, uiVars>>

\* mark_complete(order_id) (lines 191-226)
mark_complete(order_id) ==
    LET i == FindOrder(order_id)
    IN  /\ IF i = 0
           THEN ServiceRaises("mark_complete", <<order_id>>,
                              <<"Order not found: ", order_id>>)
           ELSE IF ~CanComplete(demo_orders[i].state)
           THEN ServiceRaises("mark_complete", <<order_id>>,
                              <<"Order ", order_id, " is not in OPEN state">>)
           ELSE \E t \in ServiceReadings :
                   /\ now' = t
                   /\ demo_orders' = [demo_orders EXCEPT ![i].state = "COMPLETED",
                                                         ![i].updated_at = t]
                   /\ service_call' =
                          Returns("mark_complete", <<order_id>>,
                                  [order_id |-> order_id, old_state |-> "OPEN",
                                   new_state |-> "COMPLETED", updated_at |-> t,
                                   total |-> Dollars(demo_orders[i].amount)])
                   /\ UNCHANGED demo_catalog
        /\ UNCHANGED <<orchestratorVars, agentVars, uiVars>>

\* process_refund(order_id, reason) (lines 228-269)
process_refund(order_id, reason) ==
    LET i == FindOrder(order_id)
    IN  /\ IF i = 0
           THEN ServiceRaises("process_refund", <<order_id, reason>>,
                              <<"Order not found: ", order_id>>)
           ELSE IF ~CanRefund(demo_orders[i].state)
           THEN ServiceRaises("process_refund", <<order_id, reason>>,
                              <<"Order ", order_id, " cannot be refunded in ",
                                demo_orders[i].state, " state">>)
           ELSE \E t \in ServiceReadings, uuid \in RefundUuids :
                   /\ now' = t
                   /\ demo_orders' = [demo_orders EXCEPT ![i].state = "CANCELED",
                                                         ![i].updated_at = t]
                   /\ service_call' =
                          Returns("process_refund", <<order_id, reason>>,
                                  [refund_id |-> <<"refund_", uuid>>,
                                   order_id |-> order_id,
                                   amount_refunded |-> Dollars(demo_orders[i].amount),
                                   reason |-> reason, status |-> "COMPLETED",
                                   processed_at |-> t,
                                   original_total |-> Dollars(demo_orders[i].amount)])
                   /\ UNCHANGED demo_catalog
        /\ UNCHANGED <<orchestratorVars, agentVars, uiVars>>

\* the orders in one of the states
OrdersIn(states) == {i \in DOMAIN demo_orders : demo_orders[i].state \in states}

RECURSIVE SumAmounts(_)
\* sum(order amount for the orders of the set)
SumAmounts(is) ==
    IF is = {} THEN 0
    ELSE LET i == CHOOSE j \in is : TRUE
         IN  demo_orders[i].amount + SumAmounts(is \ {i})

\* OrdersService.seed_demo_data() (lines 271-303); total_revenue, a float with
\* two decimals, is held in hundredths
orders_seed_demo_data ==
    /\ ServiceReads("orders.seed_demo_data", <<>>,
                    [status |-> "success",
                     orders_seeded |-> Len(demo_orders),
                     pending_orders |-> Cardinality(OrdersIn({"OPEN"})),
                     completed_orders |->
                         Len(demo_orders) - Cardinality(OrdersIn({"OPEN"})),
                     total_revenue |-> SumAmounts(OrdersIn({"COMPLETED"}))])
    /\ UNCHANGED <<orchestratorVars, agentVars, uiVars>>

(* ---- CatalogService (src/backend/services/catalog_service.py) ----------- *)
\* the loop of lines 122-125 and 159-162: the index of the first item with the
\* id, 0 if there is none (item stays None)
FindItem(item_id) ==
    LET hits == {i \in DOMAIN demo_catalog : demo_catalog[i].id = item_id}
    IN  IF hits = {} THEN 0 ELSE CHOOSE i \in hits : \A j \in hits : i <= j

\* the item ids of the calls: an item present at all locations, one that is
\* not, and an unknown one
ItemIds == {"catalog_item_1", "catalog_item_3", "catalog_item_9"}

\* the status arguments of toggle_status: none given, the empty string,
\* "active" in two spellings, and another word
Statuses == {PyNone, "", "active", "Active", "inactive"}

\* status.lower() on the status arguments of the model
StatusLower(status) ==
    CASE status = "Active" -> "active"
      [] OTHER -> status

\* "active" if flag else "inactive"
StatusName(flag) == IF flag THEN "active" ELSE "inactive"

\* items[:limit] (line 101) for limit >= 0, with no category filter
get_items(limit) ==
    /\ ServiceReads("get_items", <<limit>>,
                    [items |-> SubSeq(demo_catalog, 1, Min(limit, Len(demo_catalog))),
                     cursor |-> PyNone])
    /\ UNCHANGED <<orchestratorVars, agentVars, uiVars>>

\* toggle_status(item_id, status) (lines 115-150)
toggle_status(item_id, status) ==
    LET i == FindItem(item_id)
    IN  /\ IF i = 0
           THEN ServiceRaises("toggle_status", <<item_id, status>>,
                              <<"Item not found: ", item_id>>)
           ELSE LET new_status ==
                        IF ~Falsy(status) THEN StatusLower(status) = "active"
                        ELSE ~demo_catalog[i].present_at_all_locations
                IN  \E t \in ServiceReadings :
                       /\ now' = t
                       /\ demo_catalog' =
                              [demo_catalog EXCEPT
                                  ![i].present_at_all_locations = new_status]
                       /\ service_call' =
                              Returns("toggle_status", <<item_id, status>>,
                                      [item_id |-> item_id,
                                       old_status |-> StatusName(~new_status),
                                       new_status |-> StatusName(new_status),
                                       updated_at |-> t])
                       /\ UNCHANGED demo_orders
        /\ UNCHANGED <<orchestratorVars, agentVars, uiVars>>

\* get_item_details(item_id) (lines 152-179): a copy of the item with
\* stock_status, last_updated and inventory_count added
get_item_details(item_id) ==
    LET i == FindItem(item_id)
    IN  /\ IF i = 0
           THEN ServiceRaises("get_item_details", <<item_id>>,
                              <<"Item not found: ", item_id>>)
           ELSE \E t \in ServiceReadings :
                   /\ now' = t
                   /\ service_call' =
                          Returns("get_item_details", <<item_id>>,
                                  [id |-> demo_catalog[i].id,
                                   present_at_all_locations |->
                                       demo_catalog[i].present_at_all_locations,
                                   stock_status |->
                                       IF demo_catalog[i].present_at_all_locations
                                       THEN "In Stock" ELSE "Low Stock",
                                   last_updated |-> t,
                                   inventory_count |->
                                       IF demo_catalog[i].present_at_all_locations
                                       THEN 25 ELSE 2])
                   /\ UNCHANGED <<demo_orders, demo_catalog>>
        /\ UNCHANGED <<orchestratorVars, agentVars, uiVars>>

\* CatalogService.seed_demo_data() (lines 181-204), without the sums of the
\* prices, which no method changes
catalog_seed_demo_data ==
    /\ ServiceReads("catalog.seed_demo_data", <<>>,
                    [status |-> "success", items_seeded |-> Len(demo_catalog),
                     categories |-> <<"beverages", "food", "pastries">>])
    /\ UNCHANGED <<orchestratorVars, agentVars, uiVars>>

\* the calls of the two services, in any order
NextServices ==
    \/ \E limit \in Limits : get_recent_orders(limit)
    \/ \E order_id \in OrderIds : get_order_details(order_id)
    \/ \E order_id \in OrderIds : mark_complete(order_id)
    \/ \E order_id \in OrderIds : process_refund(order_id, "Customer request")
    \/ orders_seed_demo_data
    \/ \E limit \in Limits : get_items(limit)
    \/ \E item_id \in ItemIds, status \in Statuses : toggle_status(item_id, status)
    \/ \E item_id \in ItemIds : get_item_details(item_id)
    \/ catalog_seed_demo_data

\* the services as constructed, called in any order
SpecServices == Init /\ [][NextServices]_vars

(* ---- UIActionHandler (src/backend/ui_components/common.py) -------------- *)
\* The handler is built with the orchestrator (demo.py line 104), whose
\* registry is the constructor's in the behaviours of this part: the
\* process_intent call of a default action handler does not yield.

\* handlers a caller registers with UIActionHandler.register_handler; each
\* awaits a collaborator, so a handle_action call suspends in it
UiCustomHandlers == {"ui_h_return", "ui_h_raise"}

\* what a registered handler does when it resumes
UiCustomOutcome(h) ==
    CASE h = "ui_h_return" -> [kind |-> "return",
                               env |-> [status |-> "success", ui_update |-> FALSE]]
      [] h = "ui_h_raise"  -> [kind |-> "raise", msg |-> "ui boom"]

\* the (action, handler) pairs register_handler is called with
UiRegisterArgs == {<<"slow_action", h>> : h \in UiCustomHandlers}

\* the actions handle_action is called with: one whose default handler calls
\* the orchestrator, one whose default handler does not, one bound by
\* register_handler, and one with no handler
UiActions == {"refresh_catalog", "close_modal", "slow_action", "no_such_action"}

\* handle_action calls started so far
UiCallsStarted == Cardinality(DOMAIN ui_pending) + Cardinality(DOMAIN ui_done)

\* self.loading_states.pop(action, None) (line 275)
PopLoading(states, action) ==
    IF action \in DOMAIN states THEN Del(states, action) ELSE states

\* the envelope of the no-handler branch (lines 60-64)
NoActionHandlerEnvelope(action) ==
    [status |-> "error", error |-> <<"No handler for action: ", action>>,
     action |-> action]

\* UIActionHandler.register_handler(action, handler) (lines 281-284)
ui_register_handler(action, handler) ==
    /\ action_handlers' = Put(action_handlers, action, handler)
    /\ UNCHANGED <<loading_states, ui_pending, ui_done, now, orchestratorVars,
                   agentVars, serviceVars>>

\* handle_action(action, {}) that does not yield (lines 43-82): no handler is
\* bound, or a default handler that returns by itself or after a process_intent
\* call that does not yield.  The loading state set at line 54 is removed at
\* line 70.
handle_action_sync(action) ==
    LET handler == Get(action_handlers, action, PyNone)
        call    == UiCallsStarted + 1
    IN  /\ UiCallsStarted < MaxActions
        /\ handler \in {PyNone, "_handle_close_modal", "_handle_refresh_catalog"}
        /\ loading_states' = PopLoading(loading_states, action)
        /\ CASE handler = PyNone ->
                  /\ \E t \in ClockReadings : now' = t
                  /\ ui_done' = Put(ui_done, call,
                                    [action |-> action,
                                     ret |-> NoActionHandlerEnvelope(action)])
                  /\ UNCHANGED orchestratorVars
             [] handler = "_handle_close_modal" ->
                  /\ \E t \in ClockReadings : now' = t
                  /\ ui_done' = Put(ui_done, call,
                                    [action |-> action,
                                     ret |-> [status |-> "success",
                                              message |-> Text1("Modal closed"),
                                              ui_update |-> TRUE,
                                              modal |-> [action |-> "close"],
                                              action |-> action]])
                  /\ UNCHANGED orchestratorVars
             [] handler = "_handle_refresh_catalog" ->
                  /\ CanSyncCall("catalog.refresh")
                  /\ \E t \in ClockReadings :
                         SyncCall("catalog.refresh", EmptyDict, "ui", t)
                  /\ ui_done' = Put(ui_done, call,
                                    [action |-> action,
                                     ret |-> [status |-> "success",
                                              message |->
                                                  Text1("Catalog refreshed successfully"),
                                              ui_update |-> TRUE,
                                              orchestrator_result |->
                                                  done'[Len(heap) + 1].ret,
                                              action |-> action]])
        /\ UNCHANGED <<action_handlers, ui_pending, agentVars, serviceVars>>

\* handle_action(action, {}) up to `await handler(params, context)` with a
\* registered handler that yields (lines 50-66)
handle_action_begin(action) ==
    /\ UiCallsStarted < MaxActions
    /\ Get(action_handlers, action, PyNone) \in UiCustomHandlers
    /\ \E t \in ClockReadings :
          /\ now' = t
          /\ loading_states' = Put(loading_states, action, t)
    /\ ui_pending' = Put(ui_pending, UiCallsStarted + 1,
                         [action |-> action, handler |-> action_handlers[action]])
    /\ UNCHANGED <<action_handlers, ui_done, orchestratorVars, agentVars,
                   serviceVars>>

\* the handler of the suspended call returns or raises, and handle_action runs
\* to its return (lines 66-82)
handle_action_resume(call) ==
    /\ call \in DOMAIN ui_pending
    /\ LET c       == ui_pending[call]
           outcome == UiCustomOutcome(c.handler)
       IN  /\ loading_states' = PopLoading(loading_states, c.action)
           /\ ui_done' = Put(ui_done, call,
                             [action |-> c.action,
                              ret |-> IF outcome.kind = "return"
                                      THEN Put(outcome.env, "action", c.action)
                                      ELSE [status |-> "error",
                                            error |-> Text1(outcome.msg),
                                            action |-> c.action]])
    /\ ui_pending' = Del(ui_pending, call)
    /\ UNCHANGED <<action_handlers, now, orchestratorVars, agentVars, serviceVars>>

NextUi ==
    \/ \E a \in UiRegisterArgs : ui_register_handler(a[1], a[2])
    \/ \E action \in UiActions :
          \/ handle_action_sync(action)
          \/ handle_action_begin(action)
    \/ \E call \in DOMAIN ui_pending : handle_action_resume(call)

\* a UI action handler on a new orchestrator
SpecUi == Init /\ [][NextUi]_vars

(* ---- properties ----------------------------------------------------------- *)
\* the last n elements of s, in order
LastN(s, n) == [i \in 1..n |-> s[Len(s) - n + i]]

\* the calls that have returned
Returned == DOMAIN done

\* C1: once every process_intent call that started has returned, as many
\* records have been appended to intent_history as calls have returned
\* (whatever the handler did, raising included).
C1_OneRecordPerCall ==
    DOMAIN pending = {} => Len(appended) = Cardinality(Returned)

\* C2: a call whose handler raised has returned an envelope with status
\* "error", the raised error's message as error, and the intent passed in.
C2_RaiseBecomesErrorEnvelope ==
    \A ref \in Returned :
        done[ref].outcome.kind = "raise" =>
            done[ref].ret = [status |-> "error",
                             error |-> <<done[ref].outcome.msg>>,
                             intent |-> done[ref].intent]

C2_Witness ==
    \E ref \in Returned : done[ref].outcome.kind = "raise"

\* C3: a process_intent call for an intent with no entry in the registry
\* returns, in one step and without running a handler, the envelope {status:
\* "error", error: "No handler for intent: <name>", intent: <name>}, and its
\* record is the last of the history, with status "error".
C3_UnregisteredIntent ==
    [][/\ \A ref \in DOMAIN pending' \ DOMAIN pending :
             pending'[ref].intent \in DOMAIN intent_handlers
       /\ \A ref \in DOMAIN heap' \ DOMAIN heap :
             heap'[ref].intent \notin DOMAIN intent_handlers =>
               /\ ref \in DOMAIN done'
               /\ done'[ref].ret =
                      [status |-> "error",
                       error |-> <<"No handler for intent: ", heap'[ref].intent>>,
                       intent |-> heap'[ref].intent]
               /\ done'[ref].outcome.kind = "none"
               /\ intent_history'[Len(intent_history')] = ref
               /\ heap'[ref].status = "error"]_vars

C3_Witness ==
    \E ref \in Returned :
        /\ done[ref].outcome.kind = "none"
        /\ done[ref].intent \notin DOMAIN intent_handlers

\* C4: the envelope a call returns when its handler returned an envelope is
\* the handler's envelope with intent and source set to the call's arguments
\* and every other field as the handler gave it.
C4_IntentAndSourceSet ==
    \A ref \in Returned :
        LET e == done[ref]
        IN  e.outcome.kind = "return" =>
              /\ DOMAIN e.ret = DOMAIN e.outcome.env \cup {"intent", "source"}
              /\ e.ret["intent"] = e.intent
              /\ e.ret["source"] = e.source
              /\ \A f \in DOMAIN e.outcome.env \ {"intent", "source"} :
                    e.ret[f] = e.outcome.env[f]

\* C5: a call is dispatched by the registry as it is when the call is made:
\* with no entry for the intent it returns the no-handler envelope, and with
\* handler h bound it runs h and returns an envelope with the status h
\* returned (no status if h returned none).
C5_DispatchFollowsRegistry ==
    [][/\ \A ref \in DOMAIN pending' \ DOMAIN pending :
             pending'[ref].handler = Get(intent_handlers, pending'[ref].intent, PyNone)
       /\ \A ref \in DOMAIN done' \ DOMAIN done :
             LET e     == done'[ref]
                 bound == IF ref \in DOMAIN pending THEN pending[ref].handler
                          ELSE Get(intent_handlers, e.intent, PyNone)
             IN  /\ e.handler = bound
                 /\ bound = PyNone =>
                      e.ret = [status |-> "error",
                               error |-> <<"No handler for intent: ", e.intent>>,
                               intent |-> e.intent]
                 /\ (bound # PyNone /\ e.outcome.kind = "return") =>
                      /\ ("status" \in DOMAIN e.ret) = ("status" \in DOMAIN e.outcome.env)
                      /\ "status" \in DOMAIN e.outcome.env =>
                            e.ret["status"] = e.outcome.env["status"]]_vars

\* C6: in every state a caller can observe, the history holds at most 100
\* records.
C6_HistoryWithinCap == Len(intent_history) <= 100

\* C7: an append that makes the history longer than 100 records leaves exactly
\* the 50 most recently appended records, in the order they were appended; an
\* append that leaves it at 100 or fewer removes nothing.
C7_TrimToHalf ==
    [][Len(appended') = Len(appended) + 1 =>
          IF Len(intent_history) + 1 > 100
          THEN intent_history' = LastN(appended', 50)
          ELSE intent_history' = Append(intent_history, appended'[Len(appended')])]_vars

\* C8: when no process_intent call is in flight, the active set (what
\* get_active_intents returns) is empty.
C8_ActiveEmptyWhenIdle ==
    DOMAIN pending = {} => DOMAIN active_intents = {}

\* what the orchestrator's queries show: the records of the active set and of
\* the history, and the registry
Observed ==
    [active   |-> [k \in DOMAIN active_intents |-> heap[active_intents[k]]],
     history  |-> [i \in DOMAIN intent_history |-> heap[intent_history[i]]],
     handlers |-> intent_handlers]

\* what a caller sees through the mapping it holds
SnapshotValue == [k \in DOMAIN snapshot.items |-> heap[snapshot.items[k]]]

CallerAction ==
    \E key \in DOMAIN snapshot.items :
        \/ caller_removes_key(key)
        \/ caller_adds_key(key)
        \/ caller_alters_record(key)

\* C9: what a caller does to the mapping get_active_intents returned (keys
\* added or removed, a record reached through it altered) changes nothing the
\* orchestrator shows, and what the orchestrator does afterwards changes
\* nothing the caller sees through that mapping.
C9_CopySemantics ==
    [][/\ CallerAction => Observed' = Observed
       /\ Next => SnapshotValue' = SnapshotValue]_vars

\* C10: get_intent_history(limit), limit >= 0, returns the last min(limit,
\* len(history)) records of the history in order and leaves the history as it
\* is; limit = 0 gives the empty list.
C10_HistoryLastN ==
    [][\A limit \in 0..MaxLimit :
          get_intent_history(limit) =>
            /\ history_view'.records =
                   LastN(intent_history, Min(limit, Len(intent_history)))
            /\ intent_history' = intent_history]_vars

\* C11: register_handler(x, h) leaves the registry with x bound to h and to
\* nothing else, whatever x was bound to before (the last registration wins),
\* leaves it as it is when x was already bound to h (a second identical
\* registration changes nothing), and changes no other intent's binding, nor
\* the active set, the history or any record.
C11_RegisterLastWins ==
    [][\A a \in RegisterArgs :
          register_handler(a[1], a[2]) =>
            /\ DOMAIN intent_handlers' = DOMAIN intent_handlers \cup {a[1]}
            /\ intent_handlers'[a[1]] = a[2]
            /\ \A n \in DOMAIN intent_handlers \ {a[1]} :
                  intent_handlers'[n] = intent_handlers[n]
            /\ Get(intent_handlers, a[1], PyNone) = a[2] =>
                  intent_handlers' = intent_handlers
            /\ active_intents' = active_intents
            /\ intent_history' = intent_history
            /\ heap' = heap]_vars

\* x was bound to a handler that a returned call ran, and is now bound to
\* another one; the default intents other than catalog.refresh keep their
\* handlers
C11_Witness ==
    /\ \E ref \in Returned :
          /\ done[ref].intent = "x"
          /\ done[ref].handler \in CustomHandlers
          /\ "x" \in DOMAIN intent_handlers
          /\ intent_handlers["x"] \in CustomHandlers \ {done[ref].handler}
    /\ \A n \in DOMAIN DefaultHandlers \ {"catalog.refresh"} :
          n \in DOMAIN intent_handlers /\ intent_handlers[n] = DefaultHandlers[n]

\* C12: unregister_handler(x) removes the binding of x when there is one and
\* changes nothing when there is none; the bindings of the other intents, the
\* active set, the history and the records are as before in both cases.
C12_UnregisterFrame ==
    [][\A intent \in CallIntents :
          unregister_handler(intent) =>
            /\ DOMAIN intent_handlers' = DOMAIN intent_handlers \ {intent}
            /\ \A n \in DOMAIN intent_handlers \ {intent} :
                  intent_handlers'[n] = intent_handlers[n]
            /\ intent \notin DOMAIN intent_handlers =>
                  intent_handlers' = intent_handlers
            /\ active_intents' = active_intents
            /\ intent_history' = intent_history
            /\ heap' = heap]_vars

\* the binding of catalog.refresh has been removed and every other default
\* intent is bound as the constructor bound it
C12_Witness ==
    /\ "catalog.refresh" \notin DOMAIN intent_handlers
    /\ \A n \in DOMAIN DefaultHandlers \ {"catalog.refresh"} :
          n \in DOMAIN intent_handlers /\ intent_handlers[n] = DefaultHandlers[n]

\* the records the active set holds
ActiveRecords == {active_intents[k] : k \in DOMAIN active_intents}

\* the records the history holds
HistoryRecords == {intent_history[i] : i \in DOMAIN intent_history}

\* C13: when a call whose handler raised returns, the registry is as before,
\* the active set holds records of calls in flight only and shares no record
\* with the history; and a call that returns after it with a handler that
\* returned an envelope returns that envelope (intent and source set) and its
\* record is the last of the history.
C13_ValidAfterRaise ==
    [][\A ref \in DOMAIN done' \ DOMAIN done :
          /\ done'[ref].outcome.kind = "raise" =>
                /\ intent_handlers' = intent_handlers
                /\ \A k \in DOMAIN active_intents' :
                      active_intents'[k] \in DOMAIN pending'
                /\ \A k \in DOMAIN active_intents', i \in DOMAIN intent_history' :
                      active_intents'[k] # intent_history'[i]
          /\ (/\ done'[ref].outcome.kind = "return"
              /\ \E r \in DOMAIN done : done[r].outcome.kind = "raise") =>
                /\ done'[ref].ret =
                       Put(Put(done'[ref].outcome.env, "intent", done'[ref].intent),
                           "source", done'[ref].source)
                /\ intent_history'[Len(intent_history')] = ref]_vars

\* C15: the record of a returned call that is in the history has the status
\* of the envelope the call returned ("completed" if that envelope has no
\* status), and that envelope as its result.
C15_RecordMatchesEnvelope ==
    \A ref \in HistoryRecords \cap Returned :
        /\ heap[ref].status =
               (IF "status" \in DOMAIN done[ref].ret THEN done[ref].ret["status"]
                ELSE "completed")
        /\ heap[ref].result = done[ref].ret

\* C18: every record in the active set has status "processing" and belongs to
\* a process_intent call that has not returned.
C18_ActiveIsInFlight ==
    \A ref \in ActiveRecords :
        /\ heap[ref].status = "processing"
        /\ ref \in DOMAIN pending

\* C19: every record in the history has status "completed" or "error".
C19_HistoryStatus ==
    \A ref \in HistoryRecords : heap[ref].status \in {"completed", "error"}

\* C20: no record is both in the active set and in the history; a call whose
\* record is appended has its id in the active set until that step and not
\* after it, and a step of one call leaves the id of every other call in
\* flight in the active set.
C20_RemovedWhenAppended ==
    [][/\ ActiveRecords' \cap HistoryRecords' = {}
       /\ \A ref \in DOMAIN pending :
             IF ref \in DOMAIN pending'
             THEN pending[ref].intent_id \in DOMAIN active_intents =>
                      pending[ref].intent_id \in DOMAIN active_intents'
             ELSE (Len(appended') = Len(appended) + 1 /\ appended'[Len(appended')] = ref)
                      <=> (/\ pending[ref].intent_id \in DOMAIN active_intents
                           /\ pending[ref].intent_id \notin DOMAIN active_intents')]_vars

\* the id field the default handler of an id-validating intent requires
RequiredField(intent) ==
    IF intent \in {"catalog.toggle_status", "catalog.view_details"} THEN "item_id"
    ELSE "order_id"

\* the action name in that handler's success envelope
ActionName(intent) ==
    CASE intent = "catalog.toggle_status" -> "toggle_item_status"
      [] intent = "catalog.view_details"  -> "show_item_details"
      [] intent = "orders.complete"       -> "mark_order_complete"
      [] intent = "orders.refund"         -> "process_order_refund"
      [] intent = "orders.details"        -> "show_order_details"

\* the error text "Missing <field>"
MissingText(field) ==
    IF field = "item_id" THEN <<"Missing item_id">> ELSE <<"Missing order_id">>

\* what a returned call e for an id-validating intent returned: the error
\* envelope if missing, else the success envelope with the id echoed
IdEnvelopeIs(e, missing) ==
    LET f == RequiredField(e.intent)
    IN  IF missing
        THEN /\ e.ret["status"] = "error"
             /\ e.ret["error"] = MissingText(f)
        ELSE /\ e.ret["status"] = "success"
             /\ e.ret["action"] = ActionName(e.intent)
             /\ f \in DOMAIN e.ret
             /\ e.ret[f] = e.params[f]

\* C14 as stated: a call for an id-validating intent returns status "error"
\* with error "Missing <field>" exactly when the field is not a key of params,
\* and otherwise status "success" with the handler's action name and the id
\* of params echoed.
C14_MissingIffAbsent ==
    \A ref \in Returned :
        done[ref].intent \in IdIntents =>
            IdEnvelopeIs(done[ref],
                         RequiredField(done[ref].intent) \notin DOMAIN done[ref].params)

\* C14 (amended): a call for an id-validating intent returns status "error"
\* with error "Missing <field>" exactly when the field is not a key of params
\* or its value is None or the empty string, and otherwise status "success"
\* with the handler's action name and the id of params echoed.
C14_MissingIffAbsentOrEmpty ==
    \A ref \in Returned :
        done[ref].intent \in IdIntents =>
            LET f == RequiredField(done[ref].intent)
                p == done[ref].params
            IN  IdEnvelopeIs(done[ref], f \notin DOMAIN p \/ p[f] \in {PyNone, ""})

\* orders.complete with order_id "abc123" has returned action
\* mark_order_complete and order_id abc123, and a call whose id field was the
\* empty string has returned the error envelope
C14_Witness ==
    /\ \E ref \in Returned :
          /\ done[ref].intent = "orders.complete"
          /\ done[ref].params = [order_id |-> "abc123"]
          /\ done[ref].ret["status"] = "success"
          /\ done[ref].ret["action"] = "mark_order_complete"
          /\ done[ref].ret["order_id"] = "abc123"
    /\ \E ref \in Returned :
          LET f == RequiredField(done[ref].intent)
          IN  /\ done[ref].intent \in IdIntents
              /\ f \in DOMAIN done[ref].params
              /\ done[ref].params[f] = ""
              /\ done[ref].ret["status"] = "error"

\* C16: process_voice_command(text) returns status "no_match" and makes no
\* process_intent call (no record created, active set, history and call log
\* as before) when text, lowered and stripped, contains no trigger of the
\* command table; when it contains one, exactly one process_intent call is
\* made, with source "voice" and the intent of a trigger the text contains,
\* the one that comes first in the table.
C16_VoiceCallsOnMatchOnly ==
    [][LET phrase == Strip(Lower(voice_result'.text))
           hits   == {i \in DOMAIN command_mappings :
                         Contains(command_mappings[i].trigger, phrase)}
           calls  == DOMAIN heap' \ DOMAIN heap
       IN  IF hits = {}
           THEN /\ voice_result'.status = "no_match"
                /\ calls = {}
                /\ heap' = heap
                /\ active_intents' = active_intents
                /\ intent_history' = intent_history
                /\ done' = done
           ELSE /\ Cardinality(calls) = 1
                /\ DOMAIN done' \ DOMAIN done = calls
                /\ \A ref \in calls :
                      /\ done'[ref].source = "voice"
                      /\ \E i \in hits :
                            /\ done'[ref].intent = command_mappings[i].intent
                            /\ \A j \in hits : i <= j]_vars

\* a text with a trigger in capitals has made the one call of the behaviour,
\* for orders.view, and the latest text, with no trigger, was answered no_match
C16_Witness ==
    /\ voice_result.status = "no_match"
    /\ voice_result.text # <<>>
    /\ DOMAIN heap = {1}
    /\ 1 \in DOMAIN done
    /\ done[1].source = "voice"
    /\ done[1].intent = "orders.view"

\* the calls a step makes: the records it creates
NewCalls == DOMAIN heap' \ DOMAIN heap

\* gesture g, read at time t, comes at least cooldown_ms(g) after every call
\* made for g so far
CooldownOver(g, t) ==
    \A ref \in DOMAIN heap :
        (heap[ref].source = "gesture" /\ heap[ref].intent = gesture_mappings[g].intent)
            => t - heap[ref].timestamp >= gesture_mappings[g].cooldown_ms

\* gesture g, whose confidence passed or was not tested, is forwarded by a
\* step exactly if its cooldown is over at the time the step reads, and then
\* as one call for the intent of g with source "gesture"
ForwardedIffCooldownOver(g) ==
    /\ (NewCalls # {}) <=> CooldownOver(g, now')
    /\ Cardinality(NewCalls) <= 1
    /\ \A ref \in NewCalls :
          /\ heap'[ref].intent = gesture_mappings[g].intent
          /\ heap'[ref].source = "gesture"
          /\ heap'[ref].timestamp = now'

\* C17: a frame with no gesture or with a confidence that is not above the
\* threshold makes no process_intent call; a gesture of a frame that passes
\* the threshold, or of test_gesture, makes a call exactly if at least
\* cooldown_ms(g) has passed since the last call made for the same gesture g
\* (whatever was rejected in between, and whatever other gestures were
\* forwarded); so two calls made for one gesture are at least cooldown_ms(g)
\* apart.
C17_GestureCooldown ==
    [][/\ \A frame \in Frames :
             _process_frame(frame) =>
                 IF frame.hands /\ frame.gesture # PyNone
                                /\ frame.confidence > confidence_threshold
                 THEN ForwardedIffCooldownOver(frame.gesture)
                 ELSE NewCalls = {} /\ done' = done
       /\ \A g \in DOMAIN gesture_mappings :
             test_gesture(g) => ForwardedIffCooldownOver(g)
       /\ \A r1 \in NewCalls, r0 \in DOMAIN heap :
             (/\ heap'[r1].source = "gesture"
              /\ heap[r0].source = "gesture"
              /\ heap[r0].intent = heap'[r1].intent)
                 => \E g \in DOMAIN gesture_mappings :
                       /\ gesture_mappings[g].intent = heap'[r1].intent
                       /\ heap'[r1].timestamp - heap[r0].timestamp
                              >= gesture_mappings[g].cooldown_ms]_vars

\* open_palm was forwarded twice and the latest test_gesture was answered
\* "cooldown"
C17_Witness ==
    /\ gesture_result.status = "cooldown"
    /\ \E r0, r1 \in DOMAIN heap :
          /\ r0 # r1
          /\ heap[r0].source = "gesture" /\ heap[r1].source = "gesture"
          /\ heap[r0].intent = "ui.refresh" /\ heap[r1].intent = "ui.refresh"

\* C21: the status of an intent record changes once: the record of a call
\* whose handler has returned or raised (the call has returned) does not have
\* status "processing", and a status other than "processing" is never changed.
C21_StatusSetOnce ==
    [][/\ \A ref \in DOMAIN done' : heap'[ref].status # "processing"
       /\ \A ref \in DOMAIN heap :
             heap[ref].status # "processing" => heap'[ref].status = heap[ref].status]_vars

\* the ids of the calls whose records are hp (all calls made so far) are
\* pairwise different
DistinctIds(hp) ==
    \A r1 \in DOMAIN hp, r2 \in DOMAIN hp :
        r1 # r2 => <<hp[r1].intent, hp[r1].timestamp>> # <<hp[r2].intent, hp[r2].timestamp>>

\* C22: when the ids of the calls are pairwise different, the active set
\* holds one entry per call suspended in its handler and no other; the
\* completion of a suspended call removes its own entry and no other, appends
\* its own record and no other, and returns the envelope of its own handler
\* (intent and source set) when that handler returned one.
C22_IndependentTracking ==
    [][DistinctIds(heap') =>
          /\ Cardinality(DOMAIN active_intents') = Cardinality(DOMAIN pending')
          /\ \A ref \in DOMAIN pending' :
                /\ pending'[ref].intent_id \in DOMAIN active_intents'
                /\ active_intents'[pending'[ref].intent_id] = ref
          /\ \A ref \in DOMAIN pending \ DOMAIN pending' :
                /\ DOMAIN active_intents' = DOMAIN active_intents \ {pending[ref].intent_id}
                /\ \A k \in DOMAIN active_intents' : active_intents'[k] = active_intents[k]
                /\ appended' = Append(appended, ref)
                /\ done'[ref].outcome.kind = "return" =>
                      done'[ref].ret =
                          Put(Put(done'[ref].outcome.env, "intent", pending[ref].intent),
                              "source", pending[ref].source)]_vars

\* C23: whatever the interleaving and the ids of the calls, a call whose
\* handler returned an envelope returns that envelope with intent and source
\* set, its record is appended to the history once, the history is cut to its
\* 50 latest records if that append made it longer than 100, and the active
\* set is empty whenever no call is in flight.
C23_CollisionSafe ==
    [][/\ \A ref \in DOMAIN done' \ DOMAIN done :
             done'[ref].outcome.kind = "return" =>
                /\ done'[ref].ret =
                       Put(Put(done'[ref].outcome.env, "intent", done'[ref].intent),
                           "source", done'[ref].source)
                /\ \A i \in DOMAIN appended : appended[i] # ref
                /\ appended' = Append(appended, ref)
                /\ intent_history' =
                       IF Len(intent_history) + 1 > 100
                       THEN LastN(appended', 50)
                       ELSE Append(intent_history, ref)
       /\ DOMAIN pending' = {} => DOMAIN active_intents' = {}]_vars

\* C24: the record of a call whose handler returned goes to the end of the
\* history when the call completes, behind the records of the calls completed
\* before it, whose order stays as it was; so the history is in the order of
\* completion, which need not be the order in which the calls were accepted
\* nor the order of the records' timestamps.
C24_HistoryInCompletionOrder ==
    [][\A ref \in DOMAIN done' \ DOMAIN done :
          done'[ref].outcome.kind = "return" =>
             /\ Len(intent_history') >= 1
             /\ intent_history'[Len(intent_history')] = ref
             /\ \E k \in 0..Len(intent_history) :
                   SubSeq(intent_history', 1, Len(intent_history') - 1) =
                       SubSeq(intent_history, k + 1, Len(intent_history))]_vars

\* two calls overlapped, the one accepted later, at a later clock reading,
\* completed first: its record precedes the other's in the history
C24_Witness ==
    \E i \in DOMAIN intent_history, j \in DOMAIN intent_history :
        /\ i < j
        /\ intent_history[i] > intent_history[j]
        /\ heap[intent_history[i]].timestamp > heap[intent_history[j]].timestamp
        /\ done[intent_history[i]].outcome.kind = "return"
        /\ done[intent_history[j]].outcome.kind = "return"

\* C25: a call suspended in handler h1 while the registry entry of its intent
\* is changed (rebound or removed) completes as a call of h1: it returns h1's
\* envelope with intent and source set, and that envelope is the result of its
\* record, the last of the history; a call that starts is dispatched by the
\* registry as it is then.
C25_BoundAtDispatch ==
    [][/\ \A ref \in DOMAIN pending \ DOMAIN pending' :
             LET c  == pending[ref]
                 h1 == CustomOutcome(c.handler)
             IN  c.handler # Get(intent_handlers, c.intent, PyNone) =>
                    /\ done'[ref].handler = c.handler
                    /\ h1.kind = "return" =>
                          /\ done'[ref].ret =
                                 Put(Put(h1.env, "intent", c.intent), "source", c.source)
                          /\ heap'[ref].result = done'[ref].ret
                          /\ intent_history'[Len(intent_history')] = ref
       /\ \A ref \in DOMAIN heap' \ DOMAIN heap :
             LET bound == Get(intent_handlers, heap'[ref].intent, PyNone)
             IN  IF ref \in DOMAIN pending' THEN pending'[ref].handler = bound
                 ELSE done'[ref].handler = bound]_vars

\* C30: the envelope of a system.status call run by the default handler
\* reports, in data, as active_intents the number of process_intent calls in
\* flight when it ran, itself included (at least 1), as processed_intents the
\* length of the history before its own record is appended, and as
\* available_handlers the size of the registry.
C30_StatusSnapshot ==
    [][\A ref \in DOMAIN done' \ DOMAIN done :
          done'[ref].handler = "_handle_system_status" =>
             LET data == done'[ref].ret["data"]
             IN  /\ data.active_intents = Cardinality(DOMAIN pending) + 1
                 /\ data.active_intents >= 1
                 /\ data.processed_intents = Len(intent_history)
                 /\ data.available_handlers = Cardinality(DOMAIN intent_handlers)]_vars

\* the states of the orders with the id
StatesOf(order_id) ==
    {demo_orders[i].state : i \in {j \in DOMAIN demo_orders : demo_orders[j].id = order_id}}

\* C26: every order is OPEN, COMPLETED or CANCELED; a call of a service
\* method changes the state of an order only from OPEN to COMPLETED
\* (mark_complete of that order) or from OPEN or COMPLETED to CANCELED
\* (process_refund of that order); a CANCELED order stays CANCELED, no refund
\* of a CANCELED order succeeds, no order becomes OPEN, and get_recent_orders,
\* get_order_details and seed_demo_data change no order.
C26_OrderLifecycle ==
    [][LET call == service_call'
       IN  /\ DOMAIN demo_orders' = DOMAIN demo_orders
           /\ \A i \in DOMAIN demo_orders :
                 LET old == demo_orders[i].state
                     new == demo_orders'[i].state
                 IN  /\ demo_orders'[i].id = demo_orders[i].id
                     /\ new \in {"OPEN", "COMPLETED", "CANCELED"}
                     /\ old # new =>
                           \/ /\ old = "OPEN" /\ new = "COMPLETED"
                              /\ call.op = "mark_complete"
                              /\ call.args[1] = demo_orders[i].id
                           \/ /\ old \in {"OPEN", "COMPLETED"} /\ new = "CANCELED"
                              /\ call.op = "process_refund"
                              /\ call.args[1] = demo_orders[i].id
           /\ (call.op = "process_refund" /\ ~call.raised) =>
                 "CANCELED" \notin StatesOf(call.args[1])
           /\ call.op \in {"get_recent_orders", "get_order_details",
                           "orders.seed_demo_data"} =>
                 demo_orders' = demo_orders]_vars

\* order_001 was completed and then refunded, order_003 was completed, and
\* the latest call, a second refund of order_001, raised
C26_Witness ==
    /\ demo_orders[1].state = "CANCELED"
    /\ demo_orders[3].state = "COMPLETED"
    /\ demo_orders[1].updated_at > demo_orders[3].updated_at
    /\ service_call.op = "process_refund"
    /\ service_call.args[1] = "order_001"
    /\ service_call.raised

\* C27: mark_complete of an unknown order or of an order that is not OPEN,
\* process_refund of an unknown order or of a CANCELED order, and
\* toggle_status of an unknown item raise an error and leave every order
\* (state and updated_at) and every item as before.
C27_FailAtomically ==
    [][LET call  == service_call'
           fails ==
               \/ call.op = "mark_complete" /\ "OPEN" \notin StatesOf(call.args[1])
               \/ call.op = "process_refund" /\ StatesOf(call.args[1]) \subseteq {"CANCELED"}
               \/ /\ call.op = "toggle_status"
                  /\ \A i \in DOMAIN demo_catalog : demo_catalog[i].id # call.args[1]
       IN  fails => /\ call.raised
                    /\ demo_orders' = demo_orders
                    /\ demo_catalog' = demo_catalog]_vars

\* orders have been completed and refunded and an item toggled, and the
\* latest call, mark_complete of a CANCELED order, raised
C27_Witness ==
    /\ service_call.op = "mark_complete"
    /\ service_call.raised
    /\ StatesOf(service_call.args[1]) = {"CANCELED"}
    /\ demo_catalog # InitialCatalog
    /\ \E i \in DOMAIN demo_orders : demo_orders[i].state = "COMPLETED"

\* C28: a toggle_status call that returns reports as old_status the status
\* the item had before the call and as new_status the status it has after it,
\* whatever the status argument; with no status argument the item's status is
\* flipped; and no other item is changed.
C28_ToggleReportsTransition ==
    [][LET call == service_call'
       IN  (call.op = "toggle_status" /\ ~call.raised) =>
              \A i \in DOMAIN demo_catalog :
                 IF demo_catalog[i].id = call.args[1]
                 THEN /\ call.value.old_status =
                             (IF demo_catalog[i].present_at_all_locations
                              THEN "active" ELSE "inactive")
                      /\ call.value.new_status =
                             (IF demo_catalog'[i].present_at_all_locations
                              THEN "active" ELSE "inactive")
                      /\ call.args[2] = PyNone =>
                             demo_catalog'[i].present_at_all_locations =
                                 ~demo_catalog[i].present_at_all_locations
                 ELSE demo_catalog'[i] = demo_catalog[i]]_vars

\* C29: an action name is in the loading states exactly if a handle_action
\* call for that action is in flight; so it is removed when a call returns
\* (handler returned, no handler, handler raised) unless another call for the
\* same action is still in flight, and the loading states are empty when no
\* call is in flight.
C29_LoadingIsInFlight ==
    DOMAIN loading_states = {ui_pending[call].action : call \in DOMAIN ui_pending}
====
